---- MODULE Spec2Model ----
(***************************************************************************)
(* Verification model of jmcrego/tokenise:                                 *)
(*   - w2vec/model.py   : checkpoint save / load / rotation                *)
(*   - w2vec/dataset.py : Vocab (build, lookup), Dataset.build_batchs      *)
(*   - corpus/faiss_cli.py : Infile loader, IndexFaiss queries, CLI driver *)
(* Each subsystem has its own specification (SpecCkpt, SpecVocab, ...);    *)
(* the variables of the other subsystems stay at their idle values.        *)
(***************************************************************************)
EXTENDS Integers, Sequences, FiniteSets, TLC

VARIABLES
    \* ---- checkpoint manager (w2vec/model.py) ----
    disk,          \* checkpoint files of the pattern: step field of the name -> content
    model,         \* in-memory model state (state_dict)
    optimizer,     \* in-memory optimizer state (state_dict)
    n_steps,       \* step count returned by the last load_model_optim
    keep_last_n,   \* retention count handed to save_model_optim
    saved,         \* history: the step counts handed to save_model_optim, in call order
    lastop,        \* history: the last checkpoint operation performed
    \* ---- vocabulary (w2vec/dataset.py, class Vocab) ----
    corpus,        \* the token stream token.tokenize yields over the lines of the files
    min_freq,      \* argument of Vocab.build
    max_size,      \* argument of Vocab.build
    tok_to_frq,    \* Vocab.tok_to_frq: dict in insertion order, as a sequence of entries
    tok_to_idx,    \* Vocab.tok_to_idx: dict token -> index
    idx_to_tok,    \* Vocab.idx_to_tok: list; Python index p is position p + 1
    lookup,        \* the last lookup made on the vocabulary and what it returned
    vpc,           \* "fresh" (constructed), "built", or "exit" (sys.exit in a lookup)
    \* ---- vector file loader (corpus/faiss_cli.py, class Infile) ----
    vfile,         \* the vector file: its lines, each a sequence of characters
    d_arg,         \* argument d (expected dimensionality, 0 = not supplied)
    norm,          \* argument norm
    has_str,       \* whether file_str (a text sidecar) is supplied
    tfile,         \* the lines of the text sidecar read so far
    vec,           \* Infile.vec: the cells of the lines accepted so far
    txt,           \* Infile.txt
    d,             \* Infile.d
    normed,        \* whether faiss.normalize_L2 has been applied to vec
    lpc,           \* "vec", "txt" (reading), "done", "exit" (sys.exit), "raised"
    lerr,          \* what ended the load: "", "cells", "entries", "ValueError", ...
    \* ---- multi-index manager (corpus/faiss_cli.py, class IndexFaiss) ----
    ix_file,       \* IndexFaiss.file: list of file names
    ix_db,         \* IndexFaiss.db: list of loaded records (n vectors, txt lines)
    ix_index,      \* IndexFaiss.index: list of indices (number of vectors added to each)
    query_len,     \* len(query) of the running call
    k_arg,         \* argument k of the running call
    min_score,     \* argument min_score, in tenths
    skip_same_id,  \* argument skip_same_id
    results,       \* Query's list 'results': for each query item a reference to a dict
    dicts,         \* the dict objects 'results' refers to: reference -> (text -> score)
    i_db,          \* Query's loop index over self.db
    i_query,       \* Query's loop index over the query items
    j_idx,         \* Query's loop index j over the k candidates
    cand,          \* the entry of D and I the loop over j handled last
    out,           \* the lines Query2 has printed
    qpc,           \* "ready", "dbloop", "scan", "returned", "raised"
    qerr,          \* the exception that ended the last call, or ""
    \* ---- search CLI driver (corpus/faiss_cli.py, __main__) ----
    argc,          \* len(sys.argv): the arguments not yet consumed
    fdb,           \* list of database files
    fdb_str,       \* list of database text files
    fquery,        \* list of query files
    fquery_str,    \* list of query text files
    k_cli,         \* the driver's k
    min_score_cli, \* the driver's min_score, in tenths
    skip_cli,      \* the driver's skip_same_id
    log_level,     \* the driver's log_level
    indexdb,       \* the driver's list of IndexFaiss objects
    i_query_cli,   \* the driver's loop index over fquery
    i_db_cli,      \* the driver's loop index over fdb
    queried,       \* history: the Query calls made (query file, database, k)
    cpc,           \* "parse", "validate", "load", "query", "done", "exit", "raised"
    cerr,          \* the message of the exit or the exception that ended the run
    \* ---- training batch construction (w2vec/dataset.py, Dataset.build_batchs) ----
    ds_corpus,     \* Dataset.corpus: list of sentences, each a list of indices
    vocab_size,    \* Dataset.vocab_size
    window,        \* Dataset.window
    n_negs,        \* Dataset.n_negs
    batch_size,    \* Dataset.batch_size
    indexs,        \* the sentence order np.argsort returned (Python indices)
    s_pos,         \* how many entries of indexs the outer loop has finished
    i_tok,         \* the loop index i over the positions of the sentence
    batch_wrd,     \* the five lists of the batch being filled
    batch_ctx,
    batch_neg,
    batch_snt,
    batch_len,
    batchs,        \* Dataset.batchs
    neg,           \* the negative list being drawn
    idx,           \* the last value random.randint returned
    bpc,           \* "start", "loop", "negs", "done", "raised"
    berr           \* the exception that ended build_batchs, or ""

ckptVars == <<disk, model, optimizer, n_steps, keep_last_n, saved, lastop>>

vocabVars == <<corpus, min_freq, max_size, tok_to_frq, tok_to_idx, idx_to_tok, lookup, vpc>>

loaderVars == <<vfile, d_arg, norm, has_str, tfile, vec, txt, d, normed, lpc, lerr>>

queryVars == <<ix_file, ix_db, ix_index, query_len, k_arg, min_score, skip_same_id,
               results, dicts, i_db, i_query, j_idx, cand, out, qpc, qerr>>

cliVars == <<argc, fdb, fdb_str, fquery, fquery_str, k_cli, min_score_cli, skip_cli,
             log_level, indexdb, i_query_cli, i_db_cli, queried, cpc, cerr>>

batchVars == <<ds_corpus, vocab_size, window, n_negs, batch_size, indexs, s_pos, i_tok,
               batch_wrd, batch_ctx, batch_neg, batch_snt, batch_len, batchs, neg, idx,
               bpc, berr>>

vars == <<ckptVars, vocabVars, loaderVars, queryVars, cliVars, batchVars>>

\* What each subsystem's operations leave alone.
notCkpt == <<vocabVars, loaderVars, queryVars, cliVars, batchVars>>
notVocab == <<ckptVars, loaderVars, queryVars, cliVars, batchVars>>
notLoader == <<ckptVars, vocabVars, queryVars, cliVars, batchVars>>
notQuery == <<ckptVars, vocabVars, loaderVars, cliVars, batchVars>>
notCli == <<ckptVars, vocabVars, loaderVars, queryVars, batchVars>>
notBatch == <<ckptVars, vocabVars, loaderVars, queryVars, cliVars>>

\* Finite sequences over S of length at most n.
SeqsUpTo(S, n) == UNION {[1..m -> S] : m \in 0..n}

\* Restriction of a function to a subset of its domain.
Restrict(f, D) == [x \in D |-> f[x]]

(***************************************************************************)
(* CHECKPOINT MANAGER                                                      *)
(***************************************************************************)

\* ---- bounds ----
MaxStep == 2
MaxSaves == 3
MaxKeep == 2

\* ---- program constants ----
FormatWidth == 9
GlobWidth == 9

\* First step count whose decimal form has more than FormatWidth digits.
StepLimit == 10 ^ FormatWidth

\* Step counts a caller may hand to save: small ones, and the ones around the
\* point where '{:09d}' starts to produce ten characters.
StepValues == (0..MaxStep) \cup {StepLimit - 1, StepLimit}

ModelStates == {"m0", "m1"}
OptimStates == {"o0", "o1"}

RECURSIVE Digits(_)
\* Decimal digits of a natural number, most significant first.
Digits(n) == IF n < 10 THEN <<n>> ELSE Append(Digits(n \div 10), n % 10)

RECURSIVE ZeroPad(_, _)
\* Left-pad with '0' up to width w; a longer string is left as it is.
ZeroPad(s, w) == IF Len(s) >= w THEN s ELSE ZeroPad(<<0>> \o s, w)

\* '{:09d}'.format(n): the step field of a checkpoint file name.
StepField(n) == ZeroPad(Digits(n), FormatWidth)

\* glob '.model.?????????.pth': the step field is exactly GlobWidth characters.
GlobMatch(name) == Len(name) = GlobWidth

RECURSIVE StrLess(_, _)
\* Python string order (lexicographic) on step fields.
StrLess(a, b) ==
    IF a = <<>> THEN b # <<>>
    ELSE IF b = <<>> THEN FALSE
    ELSE IF Head(a) # Head(b) THEN Head(a) < Head(b)
    ELSE StrLess(Tail(a), Tail(b))

RECURSIVE SortedNames(_)
\* sorted(...) of a set of names, ascending.
SortedNames(S) ==
    IF S = {} THEN <<>>
    ELSE LET m == CHOOSE x \in S : \A y \in S \ {x} : StrLess(x, y)
         IN  <<m>> \o SortedNames(S \ {m})

\* sorted(glob.glob(pattern + '.model.?????????.pth'))
GlobFiles(dsk) == SortedNames({f \in DOMAIN dsk : GlobMatch(f)})

\* torch.save(state, file): creates or overwrites the file.
WriteFile(dsk, name, content) ==
    [f \in (DOMAIN dsk) \cup {name} |-> IF f = name THEN content ELSE dsk[f]]

\* Faulty variant of RemovedByPrune: removes from the end of the sorted list.
RemovedByPruneFromEnd(files, keep) ==
    IF Len(files) > keep THEN {files[i] : i \in (keep + 1)..Len(files)} ELSE {}

\* while len(files) > keep_last_n: f = files.pop(0); os.remove(f)
RemovedByPrune(files, keep) ==
    IF Len(files) > keep THEN {files[i] : i \in 1..(Len(files) - keep)} ELSE {}

\* Faulty variant of NewestFile: takes the first file of the sorted list.
OldestFile(files) == files[1]

\* files[-1] of load_model_optim ("last is the newest")
NewestFile(files) == files[Len(files)]

CkptInit ==
    /\ disk = <<>>
    /\ model = "m0"
    /\ optimizer = "o0"
    /\ n_steps = 0
    /\ keep_last_n \in 0..MaxKeep
    /\ saved = <<>>
    /\ lastop = "init"

\* The training driver's optimizer step: it mutates the model parameters and
\* the optimizer state together.
TrainStep ==
    /\ \E m \in ModelStates \ {model}, o \in OptimStates \ {optimizer} :
          /\ model' = m
          /\ optimizer' = o
    /\ lastop' = "train"
    /\ UNCHANGED <<disk, n_steps, keep_last_n, saved>>
    /\ UNCHANGED notCkpt

save_model_optim(step) ==
    /\ Len(saved) < MaxSaves
    /\ LET file == StepField(step)
           state == [n_steps |-> step, optimizer |-> optimizer, model |-> model]
           written == WriteFile(disk, file, state)
           files == GlobFiles(written)
           removed == RemovedByPrune(files, keep_last_n)
       IN  disk' = Restrict(written, (DOMAIN written) \ removed)
    /\ saved' = Append(saved, step)
    /\ lastop' = "save"
    /\ UNCHANGED <<model, optimizer, n_steps, keep_last_n>>
    /\ UNCHANGED notCkpt

load_model_optim ==
    /\ LET files == GlobFiles(disk)
       IN  IF Len(files) > 0
           THEN LET checkpoint == disk[NewestFile(files)]
                IN  /\ n_steps' = checkpoint.n_steps
                    /\ optimizer' = checkpoint.optimizer
                    /\ model' = checkpoint.model
           ELSE /\ n_steps' = 0
                /\ UNCHANGED <<model, optimizer>>
    /\ lastop' = "load"
    /\ UNCHANGED <<disk, keep_last_n, saved>>
    /\ UNCHANGED notCkpt

CkptNext ==
    \/ TrainStep
    \/ \E step \in StepValues : save_model_optim(step)
    \/ load_model_optim


\* ---- claims about the checkpoint manager ----

Increasing(s) == \A i \in 1..(Len(s) - 1) : s[i] < s[i + 1]

StepsOnDisk == {disk[f].n_steps : f \in DOMAIN disk}

\* The last m step counts handed to save.
LastSaved(m) == {saved[i] : i \in (Len(saved) - m + 1)..Len(saved)}

\* C1: after saves at strictly increasing step counts, each below 10^9, with a
\* fixed keep_last_n = n >= 1, the files on disk are exactly the
\* min(n, number of saves) checkpoints with the highest step counts.
C1_Retention ==
    (/\ keep_last_n >= 1
     /\ Increasing(saved)
     /\ \A i \in 1..Len(saved) : saved[i] < 1000000000)
    => LET m == IF keep_last_n < Len(saved) THEN keep_last_n ELSE Len(saved)
       IN  /\ Cardinality(DOMAIN disk) = m
           /\ StepsOnDisk = LastSaved(m)

\* C1 witness: three increasing saves with keep_last_n = 2 have pruned the
\* oldest file and kept the two newest.
C1_Witness ==
    /\ keep_last_n = 2
    /\ Len(saved) = 3
    /\ Increasing(saved)
    /\ saved[3] < 1000000000
    /\ StepsOnDisk = {saved[2], saved[3]}

\* The checkpoint with the highest recorded step count among a set of files.
HighestOf(F) == CHOOSE f \in F : \A g \in F : disk[g].n_steps <= disk[f].n_steps

RestoredFrom(f) ==
    /\ n_steps = disk[f].n_steps
    /\ model = disk[f].model
    /\ optimizer = disk[f].optimizer

NineDigit == {f \in DOMAIN disk : disk[f].n_steps < 1000000000}

C17_AsStated ==
    keep_last_n >= 1 =>
        /\ lastop = "save" => StepField(saved[Len(saved)]) \in DOMAIN disk
        /\ (lastop = "load" /\ saved # <<>>) => n_steps \in {saved[i] : i \in 1..Len(saved)}

\* A save at a step count below that of the checkpoint on disk, with
\* keep_last_n = 1, has returned with its own file removed.
C17_JustSavedRemoved ==
    /\ lastop = "save"
    /\ keep_last_n = 1
    /\ Len(saved) = 2
    /\ saved[2] < saved[1]
    /\ saved[1] < StepLimit
    /\ StepField(saved[2]) \notin DOMAIN disk
    /\ StepField(saved[1]) \in DOMAIN disk


(***************************************************************************)
(* VOCABULARY                                                              *)
(***************************************************************************)

\* ---- bounds ----
MaxCorpus == 4
MaxMinFreq == 2
MaxSize == 3

\* ---- program constants ----
idx_unk == 0
str_unk == "<unk>"

\* Token strings a corpus may hold; a corpus may hold the literal '<unk>'.
Tokens == {str_unk, "a", "b", "c"}

\* Result of a lookup that ended in sys.exit().
SysExit == "sys.exit"

\* self.tok_to_frq[tok] += 1 on a defaultdict(int): a new key goes last.
CountToken(frqs, tok) ==
    IF \E i \in 1..Len(frqs) : frqs[i].wrd = tok
    THEN [i \in 1..Len(frqs) |->
            IF frqs[i].wrd = tok THEN [wrd |-> tok, frq |-> frqs[i].frq + 1] ELSE frqs[i]]
    ELSE Append(frqs, [wrd |-> tok, frq |-> 1])

RECURSIVE CountTokens(_, _)
\* The counting loop of build over the whole token stream.
CountTokens(frqs, toks) ==
    IF toks = <<>> THEN frqs ELSE CountTokens(CountToken(frqs, Head(toks)), Tail(toks))

\* Faulty variant of InsertAfterTies: puts the item before the items of equal frequency.
InsertBeforeTies(srt, x) ==
    LET n == Cardinality({i \in 1..Len(srt) : srt[i].frq > x.frq})
    IN  SubSeq(srt, 1, n) \o <<x>> \o SubSeq(srt, n + 1, Len(srt))

\* Where an item goes in a list already sorted by descending frequency.
InsertAfterTies(srt, x) ==
    LET n == Cardinality({i \in 1..Len(srt) : srt[i].frq >= x.frq})
    IN  SubSeq(srt, 1, n) \o <<x>> \o SubSeq(srt, n + 1, Len(srt))

RECURSIVE SortInto(_, _)
SortInto(srt, items) ==
    IF items = <<>> THEN srt ELSE SortInto(InsertAfterTies(srt, Head(items)), Tail(items))

\* sorted(items, key=frq, reverse=True): stable, so equal frequencies keep
\* the dict's insertion order.
SortedByFrq(items) == SortInto(<<>>, items)

\* Faulty variant of CapReached: stops one entry after the cap.
CapPassed(i2t, cap) == Len(i2t) = cap + 1

\* if len(self.idx_to_tok) == max_size: break
CapReached(i2t, cap) == Len(i2t) = cap

\* if frq < min_freq: break
BelowMinFreq(frq, minf) == frq < minf

\* Faulty variant of NextIndex: takes the length after the append.
IndexAfterAppend(i2t) == Len(i2t) + 1

\* self.tok_to_idx[wrd] = len(self.idx_to_tok)   (evaluated before the append)
NextIndex(i2t) == Len(i2t)

\* d[k] = v on a dict.
DictSet(dict, k, v) == [x \in (DOMAIN dict) \cup {k} |-> IF x = k THEN v ELSE dict[x]]

RECURSIVE FillTable(_, _, _, _, _)
\* for wrd, frq in sorted(...): the loop that fills the table.
FillTable(items, t2i, i2t, minf, cap) ==
    IF items = <<>> THEN [tok_to_idx |-> t2i, idx_to_tok |-> i2t]
    ELSE IF CapReached(i2t, cap) THEN [tok_to_idx |-> t2i, idx_to_tok |-> i2t]
    ELSE IF BelowMinFreq(Head(items).frq, minf) THEN [tok_to_idx |-> t2i, idx_to_tok |-> i2t]
    ELSE FillTable(Tail(items),
                   DictSet(t2i, Head(items).wrd, NextIndex(i2t)),
                   Append(i2t, Head(items).wrd),
                   minf, cap)

\* Vocab.__len__
VocabLen == Len(idx_to_tok)

\* Vocab.__contains__ for an int and for a string.
ContainsInt(s) == s >= 0 /\ s < VocabLen

ContainsStr(s) == s \in DOMAIN tok_to_idx

\* Vocab.__getitem__ for an int (index -> token) and for a string (token -> index).
GetItemInt(s) == IF ~ContainsInt(s) THEN SysExit ELSE idx_to_tok[s + 1]

GetItemStr(s) == IF ~ContainsStr(s) THEN idx_unk ELSE tok_to_idx[s]

VocabInit ==
    /\ corpus \in SeqsUpTo(Tokens, MaxCorpus)
    /\ min_freq \in 0..MaxMinFreq
    /\ max_size \in 0..MaxSize
    /\ tok_to_frq = <<>>
    /\ tok_to_idx = <<>>
    /\ idx_to_tok = <<>>
    /\ lookup = [key |-> "none", idx |-> idx_unk, tok |-> "none"]
    /\ vpc = "fresh"

\* Vocab.build(files, token, min_freq, max_size) on a freshly constructed Vocab.
VocabBuild ==
    /\ vpc = "fresh"
    /\ LET frqs == CountTokens(<<>>, corpus)
           t2i == DictSet(tok_to_idx, str_unk, idx_unk)
           i2t == Append(idx_to_tok, str_unk)
           tab == FillTable(SortedByFrq(frqs), t2i, i2t, min_freq, max_size)
       IN  /\ tok_to_frq' = frqs
           /\ tok_to_idx' = tab.tok_to_idx
           /\ idx_to_tok' = tab.idx_to_tok
    /\ vpc' = "built"
    /\ UNCHANGED <<corpus, min_freq, max_size, lookup>>
    /\ UNCHANGED notVocab

\* vocab[vocab[tok]] for a token string: index of the token, then the token
\* at that index.
VocabRoundTrip(tok) ==
    /\ vpc = "built"
    /\ lookup' = [key |-> tok, idx |-> GetItemStr(tok), tok |-> GetItemInt(GetItemStr(tok))]
    /\ UNCHANGED <<corpus, min_freq, max_size, tok_to_frq, tok_to_idx, idx_to_tok, vpc>>
    /\ UNCHANGED notVocab

\* vocab[i] for an int: the token, or sys.exit when i is no index of the table.
VocabGetIndex(i) ==
    /\ vpc = "built"
    /\ lookup' = [key |-> "int", idx |-> i, tok |-> GetItemInt(i)]
    /\ vpc' = IF GetItemInt(i) = SysExit THEN "exit" ELSE vpc
    /\ UNCHANGED <<corpus, min_freq, max_size, tok_to_frq, tok_to_idx, idx_to_tok>>
    /\ UNCHANGED notVocab

VocabNext ==
    \/ VocabBuild
    \/ \E tok \in Tokens : VocabRoundTrip(tok)
    \/ \E i \in 0..(MaxCorpus + 1) : VocabGetIndex(i)

VocabIdle ==
    /\ corpus = <<>>
    /\ min_freq = 0
    /\ max_size = 0
    /\ tok_to_frq = <<>>
    /\ tok_to_idx = <<>>
    /\ idx_to_tok = <<>>
    /\ lookup = [key |-> "none", idx |-> idx_unk, tok |-> "none"]
    /\ vpc = "idle"

\* ---- claims about the vocabulary ----

VocabBuilt == vpc \in {"built", "exit"}

\* Corpus frequency of a token, and the place of its first occurrence.
Count(t) == Cardinality({i \in 1..Len(corpus) : corpus[i] = t})

FirstPos(t) == CHOOSE i \in 1..Len(corpus) : corpus[i] = t /\ \A j \in 1..(i - 1) : corpus[j] # t

\* a comes before b: higher frequency, or the same and encountered first.
RankedBefore(a, b) ==
    \/ Count(a) > Count(b)
    \/ Count(a) = Count(b) /\ FirstPos(a) < FirstPos(b)

\* The tokens held by the table, at any index.
InTable(t) == \E p \in 1..Len(idx_to_tok) : idx_to_tok[p] = t

SentinelFirst == idx_to_tok[idx_unk + 1] = "<unk>"

RankOrder ==
    \A p, q \in 2..Len(idx_to_tok) :
        p < q => RankedBefore(idx_to_tok[p], idx_to_tok[q])

\* C3 as stated: after build on a fresh vocabulary '<unk>' is at index 0,
\* indices 1..N hold tokens in descending corpus frequency with ties broken by
\* first-encounter order, and no token of the corpus whose frequency is below
\* min_freq is in the table.
C3_AsStated ==
    VocabBuilt =>
        /\ SentinelFirst
        /\ RankOrder
        /\ \A t \in Tokens : (Count(t) >= 1 /\ Count(t) < min_freq) => ~InTable(t)

\* C3 amended: '<unk>' is at index 0, indices 1..N hold tokens in descending
\* corpus frequency with ties broken by first-encounter order, no entry at
\* indices 1..N has a frequency below min_freq, and no token other than the
\* sentinel string '<unk>' itself whose frequency is below min_freq is in the
\* table.
C3_BuildOrder ==
    VocabBuilt =>
        /\ SentinelFirst
        /\ RankOrder
        /\ \A p \in 2..Len(idx_to_tok) : Count(idx_to_tok[p]) >= min_freq
        /\ \A t \in Tokens \ {"<unk>"} :
              (Count(t) >= 1 /\ Count(t) < min_freq) => ~InTable(t)

\* C3 witness: built with min_freq = 2 from a corpus with a token occurring
\* exactly once, which is left out, and a token occurring twice, which is in.
C3_Witness ==
    /\ VocabBuilt
    /\ min_freq = 2
    /\ \E t \in Tokens \ {"<unk>"} : Count(t) = 1 /\ ~InTable(t)
    /\ \E t \in Tokens \ {"<unk>"} : Count(t) = 2 /\ InTable(t)

\* C4: for every token in the vocabulary vocab[vocab[token]] = token, every
\* out-of-vocabulary token maps to index 0, and index 0 maps back to '<unk>';
\* and every round trip made has returned just that.
C4_RoundTrip ==
    VocabBuilt =>
        /\ \A t \in Tokens :
              /\ ContainsStr(t) => GetItemInt(GetItemStr(t)) = t
              /\ ~ContainsStr(t) => GetItemStr(t) = 0
        /\ GetItemInt(0) = "<unk>"
        /\ lookup.key \in Tokens =>
              /\ ContainsStr(lookup.key) => lookup.tok = lookup.key
              /\ ~ContainsStr(lookup.key) => (lookup.idx = 0 /\ lookup.tok = "<unk>")

\* C4 witness: a round trip of an in-vocabulary token held at an index after
\* the first ones, in a table that leaves another corpus token out.
C4_Witness ==
    /\ VocabBuilt
    /\ lookup.key \in Tokens \ {"<unk>"}
    /\ lookup.idx >= 2
    /\ lookup.tok = lookup.key
    /\ \E t \in Tokens : Count(t) >= 1 /\ ~ContainsStr(t)

\* The distinct corpus tokens whose frequency reaches min_freq.
Qualifying == {t \in Tokens : Count(t) >= 1 /\ Count(t) >= min_freq}

\* C5: for max_size > 0 the built table (sentinel included) never has more
\* than max_size entries; max_size = 0 is no cap: every token with
\* frequency >= min_freq is included.
C5_SizeCap ==
    VocabBuilt =>
        /\ max_size > 0 => Len(idx_to_tok) <= max_size
        /\ max_size = 0 =>
              \A t \in Qualifying : \E p \in 2..Len(idx_to_tok) : idx_to_tok[p] = t

\* C5 witness: a table cut at max_size = 2 although more tokens qualified.
C5_Witness ==
    /\ VocabBuilt
    /\ max_size = 2
    /\ Len(idx_to_tok) = 2
    /\ Cardinality(Qualifying) >= 2

(***************************************************************************)
(* VECTOR FILE LOADER                                                      *)
(***************************************************************************)

\* ---- bounds ----
MaxLines == 3
MaxD == 3

\* Lines a vector file may hold: one, two and three cells, a trailing space,
\* an empty line, and lines with an empty cell (leading or doubled space).
VecLines ==
    { <<"1">>,
      <<"1", " ", "2">>,
      <<"1", " ", "2", " ">>,
      <<"1", " ", "2", " ", "3">>,
      <<" ", "1">>,
      <<>>,
      <<"1", " ", " ", "2">> }

\* Lines a text sidecar may hold.
TxtLines == { <<"h", "i">>, <<"y", "o", " ">> }

RECURSIVE RStrip(_)
\* str.rstrip(): drop the trailing whitespace.
RStrip(s) ==
    IF s # <<>> /\ s[Len(s)] = " " THEN RStrip(SubSeq(s, 1, Len(s) - 1)) ELSE s

RECURSIVE SplitFrom(_, _)
\* str.split(' '): cut at every single space; cur is the cell being read.
SplitFrom(s, cur) ==
    IF s = <<>> THEN <<cur>>
    ELSE IF Head(s) = " " THEN <<cur>> \o SplitFrom(Tail(s), <<>>)
    ELSE SplitFrom(Tail(s), Append(cur, Head(s)))

\* l.rstrip().split(' ')
SplitLine(l) == SplitFrom(RStrip(l), <<>>)

\* Faulty variant of CellsDiffer: accepts a line with fewer cells.
CellsExceed(l, dim) == Len(l) > dim

\* if len(l) != self.d
CellsDiffer(l, dim) == Len(l) # dim

\* float(cell), as astype('float32') applies it: an empty cell is no number.
IsFloat(cell) == cell # <<>>

\* Faulty variant of EntriesDiffer: accepts a sidecar with more lines than vectors.
EntriesFewer(t, v) == Len(t) < Len(v)

\* if len(self.txt) != len(self.vec)
EntriesDiffer(t, v) == Len(t) # Len(v)

LoaderInit ==
    /\ vfile \in SeqsUpTo(VecLines, MaxLines)
    /\ d_arg \in 0..MaxD
    /\ norm \in BOOLEAN
    /\ has_str \in BOOLEAN
    /\ tfile = <<>>
    /\ vec = <<>>
    /\ txt = <<>>
    /\ d = d_arg
    /\ normed = FALSE
    /\ lpc = "vec"
    /\ lerr = ""

\* One pass of 'for l in f' over the vector file (lines 38-46).
ReadVecLine ==
    /\ lpc = "vec"
    /\ Len(vec) < Len(vfile)
    /\ LET l == SplitLine(vfile[Len(vec) + 1])
       IN  IF d > 0
           THEN IF CellsDiffer(l, d)
                THEN /\ lpc' = "exit"
                     /\ lerr' = "cells"
                     /\ UNCHANGED <<vec, d>>
                ELSE /\ vec' = Append(vec, l)
                     /\ UNCHANGED <<d, lpc, lerr>>
           ELSE /\ d' = Len(l)
                /\ vec' = Append(vec, l)
                /\ UNCHANGED <<lpc, lerr>>
    /\ UNCHANGED <<vfile, d_arg, norm, has_str, tfile, txt, normed>>
    /\ UNCHANGED notLoader

\* End of the vector file (lines 48-56): conversion to a float32 array, the
\* normalization, and the return when no sidecar is given.  What
\* faiss.normalize_L2 does with an array of no vectors is the library's
\* affair: it may raise or not.
EndVecFile ==
    /\ lpc = "vec"
    /\ Len(vec) = Len(vfile)
    /\ IF \E i \in 1..Len(vec) : \E j \in 1..Len(vec[i]) : ~IsFloat(vec[i][j])
       THEN /\ lpc' = "raised"
            /\ lerr' = "ValueError"
            /\ UNCHANGED normed
       ELSE \/ /\ normed' = norm
               /\ lpc' = IF has_str THEN "txt" ELSE "done"
               /\ UNCHANGED lerr
            \/ /\ norm /\ vec = <<>>
               /\ lpc' = "raised"
               /\ lerr' = "normalize_L2"
               /\ UNCHANGED normed
    /\ UNCHANGED <<vfile, d_arg, norm, has_str, tfile, vec, txt, d>>
    /\ UNCHANGED notLoader

\* One pass of 'for l in f' over the text sidecar (lines 63-64).
ReadTxtLine(l) ==
    /\ lpc = "txt"
    /\ Len(tfile) < MaxLines + 1
    /\ tfile' = Append(tfile, l)
    /\ txt' = Append(txt, RStrip(l))
    /\ UNCHANGED <<vfile, d_arg, norm, has_str, vec, d, normed, lpc, lerr>>
    /\ UNCHANGED notLoader

\* End of the text sidecar (lines 65-69): the entry counts are compared.
EndTxtFile ==
    /\ lpc = "txt"
    /\ IF EntriesDiffer(txt, vec)
       THEN lpc' = "exit" /\ lerr' = "entries"
       ELSE lpc' = "done" /\ UNCHANGED lerr
    /\ UNCHANGED <<vfile, d_arg, norm, has_str, tfile, vec, txt, d, normed>>
    /\ UNCHANGED notLoader

LoaderNext ==
    \/ ReadVecLine
    \/ EndVecFile
    \/ \E l \in TxtLines : ReadTxtLine(l)
    \/ EndTxtFile

LoaderIdle ==
    /\ vfile = <<>>
    /\ d_arg = 0
    /\ norm = FALSE
    /\ has_str = FALSE
    /\ tfile = <<>>
    /\ vec = <<>>
    /\ txt = <<>>
    /\ d = 0
    /\ normed = FALSE
    /\ lpc = "idle"
    /\ lerr = ""

\* ---- claims about the vector file loader ----

\* Number of cells of a line: one more than its spaces that are followed by
\* something other than a space.
Cells(line) ==
    1 + Cardinality({i \in 1..Len(line) :
                        line[i] = " " /\ \E j \in (i + 1)..Len(line) : line[j] # " "})

\* The dimensionality the file is held to: the one supplied, or the first
\* line's cell count when none is supplied.
Expected == IF d_arg > 0 THEN d_arg ELSE IF vfile = <<>> THEN 0 ELSE Cells(vfile[1])

BadLines == {i \in 1..Len(vfile) : Cells(vfile[i]) # Expected}

FirstBad == CHOOSE i \in BadLines : \A j \in BadLines : i <= j

\* Every cell of every line is a number: the lines never have an empty cell.
Numeric ==
    \A i \in 1..Len(vfile) :
        /\ vfile[i] # <<>>
        /\ vfile[i][1] # " "
        /\ \A j \in 1..(Len(vfile[i]) - 1) : ~(vfile[i][j] = " " /\ vfile[i][j + 1] = " ")

\* C6: a vector file with a line whose cell count differs from d (supplied, or
\* the first line's) ends the process at the first such line and no record
\* comes out; a file of N >= 1 lines of d numeric cells each gives a record of
\* exactly N vectors of width d.
C6_ShapeValidation ==
    /\ BadLines # {} =>
          /\ lpc \in {"vec", "exit"}
          /\ Len(vec) < FirstBad
          /\ lpc = "exit" => (lerr = "cells" /\ Len(vec) = FirstBad - 1)
          /\ (lpc = "vec" /\ Len(vec) = FirstBad - 1) => ENABLED ReadVecLine
    /\ (BadLines = {} /\ Numeric /\ vfile # <<>>) =>
          /\ lpc # "raised"
          /\ lerr # "cells"
          /\ lpc \in {"txt", "done"} =>
                /\ Len(vec) = Len(vfile)
                /\ d = Expected
                /\ \A i \in 1..Len(vec) : Len(vec[i]) = d
          /\ (lpc = "exit" \/ lpc = "done") => Len(vec) = Len(vfile)

\* C6 witnesses: a load ended by the second line of a file whose first line
\* set d = 2; and (C6_RecordWitness) a record of three vectors of width 2.
C6_Witness ==
    /\ d_arg = 0
    /\ lpc = "exit"
    /\ lerr = "cells"
    /\ Len(vec) = 1
    /\ d = 2

C6_RecordWitness ==
    /\ lpc = "done"
    /\ Len(vec) = 3
    /\ d = 2
    /\ BadLines = {}

\* t is l without its trailing spaces.
IsRStripOf(t, l) ==
    /\ Len(t) <= Len(l)
    /\ \A i \in 1..Len(t) : t[i] = l[i]
    /\ \A i \in (Len(t) + 1)..Len(l) : l[i] = " "
    /\ t # <<>> => t[Len(t)] # " "

\* The sidecar has been read to its end.
SidecarRead == has_str /\ (lpc = "done" \/ (lpc = "exit" /\ lerr = "entries"))

\* C7: when a text sidecar is supplied and its line count differs from the
\* vector count, loading ends the process, whatever the files hold; when the
\* counts are equal the record holds one text line per vector, in file order.
C7_SidecarValidation ==
    SidecarRead =>
        /\ Len(tfile) # Len(vec) => lpc = "exit"
        /\ Len(tfile) = Len(vec) =>
              /\ lpc = "done"
              /\ Len(txt) = Len(vec)
              /\ \A i \in 1..Len(txt) : IsRStripOf(txt[i], tfile[i])

\* C7 witnesses: a load ended because the sidecar has one line more than the
\* two vectors; and (C7_RecordWitness) a record with two vectors and their
\* two text lines.
C7_Witness ==
    /\ has_str
    /\ lpc = "exit"
    /\ lerr = "entries"
    /\ Len(vec) = 2
    /\ Len(tfile) = 3

C7_RecordWitness ==
    /\ has_str
    /\ lpc = "done"
    /\ Len(vec) = 2
    /\ Len(txt) = 2
    /\ txt[1] # txt[2]


(***************************************************************************)
(* MULTI-INDEX MANAGER                                                     *)
(***************************************************************************)

\* ---- bounds ----
MaxDbs == 2
MaxQuery == 2
MaxK == 2

\* The attributes IndexFaiss.__init__ gives the object; no method adds one.
SelfAttrs == {"file", "db", "index"}

\* The attributes a Python list has that the class calls on self.index.
ListAttrs == {"append"}

\* Loaded database records (Infile objects): n vectors of d cells and their text lines.
DbRecords ==
    { [file |-> "db1", n |-> 1, d |-> 2, txt |-> <<"x">>],
      [file |-> "db2", n |-> 2, d |-> 2, txt |-> <<"x", "y">>] }

\* Scores and thresholds, in tenths (0.5 is the CLI's default min_score).
Scores == {2, 5, 10}
MinScores == {5, 8}

\* No entry of D and I has been read yet.
NoCand == [db |-> 0, i_query |-> 0, j |-> 0, off |-> 0, score |-> 0, read |-> FALSE]

\* if score < min_score: continue
BelowMinScore(score, ms) == score < ms

\* if skip_same_id and i_query == i_db: continue
SameId(skip, iq, off) == skip /\ iq = off

\* IndexFaiss.__init__
QueryInit ==
    /\ ix_file = <<>>
    /\ ix_db = <<>>
    /\ ix_index = <<>>
    /\ query_len = 0
    /\ k_arg = 0
    /\ min_score = 0
    /\ skip_same_id = FALSE
    /\ results = <<>>
    /\ dicts = <<>>
    /\ i_db = 0
    /\ i_query = 0
    /\ j_idx = 0
    /\ cand = NoCand
    /\ out = <<>>
    /\ qpc = "ready"
    /\ qerr = ""

\* IndexFaiss.add_db(file, db): the three appends, then self.index.add(db.vec)
\* on the list self.index, which has no 'add': the call raises after the
\* appends.  The index objects are the library's; what they hold shows only in
\* what their search returns.
add_db(rec) ==
    /\ qpc = "ready"
    /\ Len(ix_db) < MaxDbs
    /\ ix_file' = Append(ix_file, rec.file)
    /\ ix_db' = Append(ix_db, rec)
    /\ ix_index' = Append(ix_index, rec.d)
    /\ qerr' = IF "add" \in ListAttrs THEN "" ELSE "AttributeError: add"
    /\ UNCHANGED <<query_len, k_arg, min_score, skip_same_id, results, dicts,
                   i_db, i_query, j_idx, cand, out, qpc>>
    /\ UNCHANGED notQuery

\* IndexFaiss.Query(query, k, min_score, skip_same_id), line 106:
\* results = [defaultdict(float)] * len(query) is len(query) references to
\* one dict.
QueryCall(nq, kk, ms, skip) ==
    /\ qpc = "ready"
    /\ query_len' = nq
    /\ k_arg' = kk
    /\ min_score' = ms
    /\ skip_same_id' = skip
    /\ results' = [i \in 1..nq |-> 1]
    /\ dicts' = <<<<>>>>
    /\ i_db' = 0
    /\ i_query' = 0
    /\ j_idx' = 0
    /\ cand' = NoCand
    /\ qerr' = ""
    /\ qpc' = "dbloop"
    /\ UNCHANGED <<ix_file, ix_db, ix_index, out>>
    /\ UNCHANGED notQuery

\* Top of 'for i_db in range(len(self.db))' (lines 107-118): the search of the
\* next index, or the return of results after the last one.  D and I are the
\* library's; their entries are drawn when the loops below read them.
QueryNextDb ==
    /\ qpc = "dbloop"
    /\ IF i_db < Len(ix_db)
       THEN IF query_len = 0
            THEN i_db' = i_db + 1 /\ UNCHANGED qpc
            ELSE qpc' = "scan" /\ UNCHANGED i_db
       ELSE qpc' = "returned" /\ UNCHANGED i_db
    /\ i_query' = 0
    /\ j_idx' = 0
    /\ UNCHANGED <<ix_file, ix_db, ix_index, query_len, k_arg, min_score, skip_same_id,
                   results, dicts, cand, out, qerr>>
    /\ UNCHANGED notQuery

\* One pass of the loop over j (lines 121-128) on the entry I[i_query, j] = off,
\* D[i_query, j] = score.  The inner 'i_db = I[i_query, j]' rebinds the name of
\* the outer loop variable, which the outer 'for' binds again at its next pass.
\* Line 128 reads self.curr_db, an attribute the object does not have.
QueryCell(off, score) ==
    /\ qpc = "scan"
    /\ off < ix_db[i_db + 1].n
    /\ cand' = [db |-> i_db, i_query |-> i_query, j |-> j_idx, off |-> off,
                score |-> score, read |-> TRUE]
    /\ IF BelowMinScore(score, min_score) \/ SameId(skip_same_id, i_query, off)
       THEN /\ IF j_idx + 1 < k_arg
               THEN j_idx' = j_idx + 1 /\ UNCHANGED <<i_query, i_db, qpc>>
               ELSE /\ j_idx' = 0
                    /\ IF i_query + 1 < query_len
                       THEN i_query' = i_query + 1 /\ UNCHANGED <<i_db, qpc>>
                       ELSE i_query' = 0 /\ i_db' = i_db + 1 /\ qpc' = "dbloop"
            /\ UNCHANGED <<dicts, qerr>>
       ELSE IF "curr_db" \in SelfAttrs
            THEN /\ dicts' = [dicts EXCEPT ![results[i_query + 1]] =
                                 [t \in (DOMAIN @) \cup {ix_db[i_db + 1].txt[off + 1]} |->
                                     IF t = ix_db[i_db + 1].txt[off + 1] THEN score ELSE @[t]]]
                 /\ UNCHANGED <<i_db, i_query, j_idx, qpc, qerr>>
            ELSE /\ qpc' = "raised"
                 /\ qerr' = "AttributeError: curr_db"
                 /\ UNCHANGED <<dicts, i_db, i_query, j_idx>>
    /\ UNCHANGED <<ix_file, ix_db, ix_index, query_len, k_arg, min_score, skip_same_id,
                   results, out>>
    /\ UNCHANGED notQuery

\* IndexFaiss.Query2(...): line 134 reads self.file_db, an attribute the
\* object does not have, before anything is searched or printed.
Query2Call(nq, kk, ms, skip) ==
    /\ qpc = "ready"
    /\ query_len' = nq
    /\ k_arg' = kk
    /\ min_score' = ms
    /\ skip_same_id' = skip
    /\ cand' = NoCand
    /\ out' = <<>>
    /\ qpc' = IF "file_db" \in SelfAttrs THEN "scan2" ELSE "raised"
    /\ qerr' = IF "file_db" \in SelfAttrs THEN "" ELSE "AttributeError: file_db"
    /\ UNCHANGED <<ix_file, ix_db, ix_index, results, dicts, i_db, i_query, j_idx>>
    /\ UNCHANGED notQuery

\* One call on the object: a call that returned or raised is the end of the run.
QueryNext ==
    \/ \E rec \in DbRecords : add_db(rec)
    \/ \E nq \in 0..MaxQuery, kk \in 1..MaxK, ms \in MinScores, skip \in BOOLEAN :
          QueryCall(nq, kk, ms, skip)
    \/ QueryNextDb
    \/ \E off \in 0..(MaxQuery - 1), score \in Scores : QueryCell(off, score)
    \/ \E nq \in 0..MaxQuery, kk \in 1..MaxK, ms \in MinScores, skip \in BOOLEAN :
          Query2Call(nq, kk, ms, skip)

QueryIdle ==
    /\ ix_file = <<>>
    /\ ix_db = <<>>
    /\ ix_index = <<>>
    /\ query_len = 0
    /\ k_arg = 0
    /\ min_score = 0
    /\ skip_same_id = FALSE
    /\ results = <<>>
    /\ dicts = <<>>
    /\ i_db = 0
    /\ i_query = 0
    /\ j_idx = 0
    /\ cand = NoCand
    /\ out = <<>>
    /\ qpc = "idle"
    /\ qerr = ""

\* ---- C8 ----
\* The candidate the loop has just handled passes both filters.
CandPasses ==
    /\ cand.read
    /\ ~BelowMinScore(cand.score, min_score)
    /\ ~SameId(skip_same_id, cand.i_query, cand.off)

\* The mapping of query item iq (Python index).
ResultOf(iq) == dicts[results[iq + 1]]

\* C8: Query filtering: no candidate whose score is below min_score is recorded,
\* and every candidate among the k retrieved that is neither below min_score
\* nor (with skip_same_id set) at the query item's own offset is recorded for
\* its query item with its score.
C8_AsStated ==
    /\ \A r \in DOMAIN dicts : \A t \in DOMAIN dicts[r] : dicts[r][t] >= min_score
    /\ CandPasses =>
          /\ ix_db[cand.db + 1].txt[cand.off + 1] \in DOMAIN ResultOf(cand.i_query)
          /\ ResultOf(cand.i_query)[ix_db[cand.db + 1].txt[cand.off + 1]] = cand.score

\* A passing candidate ended the call with an exception and nothing recorded.
C8_Raised ==
    /\ CandPasses
    /\ qpc = "raised"
    /\ qerr = "AttributeError: curr_db"
    /\ \A r \in DOMAIN dicts : dicts[r] = <<>>


\* ---- C12 ----
\* A Query call has ended, by return or by an exception.
QueryEnded == qpc \in {"returned", "raised"} /\ qerr # "AttributeError: file_db"

\* The candidates of query item iq that passed both filters, as text and
\* score.  The call ends at the first candidate that passes, so cand is the
\* only one there can be.
PassedFor(iq) ==
    IF CandPasses /\ cand.i_query = iq
    THEN {[txt |-> ix_db[cand.db + 1].txt[cand.off + 1], score |-> cand.score]}
    ELSE {}

\* The entries of the mapping of query item iq.
EntriesOf(iq) == {[txt |-> t, score |-> ResultOf(iq)[t]] : t \in DOMAIN ResultOf(iq)}

\* C12: Query results are per query item: when Query ends, the mapping of
\* query item i holds exactly the candidates that passed the min_score and
\* identity filters for item i, and no match of another item.
C12_AsStated ==
    QueryEnded => \A iq \in 0..(query_len - 1) : EntriesOf(iq) = PassedFor(iq)

\* Query has ended on a candidate that passed for the second of two query
\* items, whose mappings are one and the same dict, left empty.
C12_Raised ==
    /\ QueryEnded
    /\ query_len = 2
    /\ CandPasses
    /\ cand.i_query = 1
    /\ results[1] = results[2]
    /\ EntriesOf(1) = {}


(***************************************************************************)
(* SEARCH CLI DRIVER                                                       *)
(***************************************************************************)

\* ---- bounds ----
MaxArgs == 8
MaxFiles == 2

\* ---- program constants ----
\* Arguments besides self that IndexFaiss.__init__ declares, and that the
\* driver's call IndexFaiss(fdb[i_db], fdb_str[i_db]) passes.
InitParams == 0
InitCallArgs == 2

\* Arguments besides self that IndexFaiss.Query declares, and that the
\* driver's call .Query(fquery[i], fquery_str[i], k, min_score, skip_same_id) passes.
QueryParams == 4
QueryCallArgs == 5

\* The driver's initial k.
DefaultK == 1

RECURSIVE FileArg(_)
\* A command-line value naming n files: "a", "a,a", ...
FileArg(n) == IF n <= 1 THEN <<"a">> ELSE FileArg(n - 1) \o <<",", "a">>

\* Values that follow the file-list options, -k and -min_score, and -log_level.
FileArgs == {FileArg(n) : n \in 1..MaxFiles}
NumArgs == { <<"2">>, <<"a">> }
LevelArgs == { <<"i", "n", "f", "o">>, <<"a">> }

\* The tokens the parsing loop tells apart ("-x" is one it does not know).
ValueOptions == {"-db", "-db_str", "-query", "-query_str", "-k", "-min_score",
                 "-log_file", "-log_level"}
FlagOptions == {"-v", "-skip_same_id", "-do_eval", "-skip_query"}
OptionTokens == ValueOptions \cup FlagOptions \cup {"-h", "-x"}

\* The values offered after option tok.
ValuesFor(tok) ==
    IF tok \in {"-k", "-min_score"} THEN NumArgs
    ELSE IF tok = "-log_level" THEN LevelArgs
    ELSE FileArgs

RECURSIVE SplitComma(_, _)
\* str.split(','): cut at every comma; cur is the field being read.
SplitComma(s, cur) ==
    IF s = <<>> THEN <<cur>>
    ELSE IF Head(s) = "," THEN <<cur>> \o SplitComma(Tail(s), <<>>)
    ELSE SplitComma(Tail(s), Append(cur, Head(s)))

\* The decimal digits among the characters of the values.
DigitValue == [c \in {"0", "1", "2"} |-> IF c = "0" THEN 0 ELSE IF c = "1" THEN 1 ELSE 2]

\* Whether int(s) and float(s) accept s (they raise ValueError otherwise).
IsNumber(s) == s # <<>> /\ \A i \in 1..Len(s) : s[i] \in DOMAIN DigitValue

RECURSIVE IntOf(_)
\* int(s) of a string of digits.
IntOf(s) == IF s = <<>> THEN 0 ELSE 10 * IntOf(SubSeq(s, 1, Len(s) - 1)) + DigitValue[s[Len(s)]]

\* str.upper() on the letters of the level names.
UpperChar(c) ==
    CASE c = "i" -> "I" [] c = "n" -> "N" [] c = "f" -> "F" [] c = "o" -> "O"
      [] c = "d" -> "D" [] c = "e" -> "E" [] c = "b" -> "B" [] c = "u" -> "U"
      [] c = "g" -> "G" [] c = "a" -> "A" [] OTHER -> c

Upper(s) == [i \in 1..Len(s) |-> UpperChar(s[i])]

\* Attributes of the logging module that are integers (the level names).
LoggingLevels == { <<"D", "E", "B", "U", "G">>, <<"I", "N", "F", "O">> }

\* create_logger: isinstance(getattr(logging, loglevel.upper(), None), int)
IsLogLevel(s) == Upper(s) \in LoggingLevels

\* [None] * n; None is an entry that is no string.
NoneList(n) == [i \in 1..n |-> <<"None">>]

\* Faulty variant of LengthsDiffer: accepts a text list shorter than the file list.
LongerList(strs, files) == Len(strs) > Len(files)

\* if len(fdb_str) != len(fdb) / if len(fquery_str) != len(fquery)
LengthsDiffer(strs, files) == Len(strs) # Len(files)

\* The state at the start of the parsing loop (lines 182-194), for every
\* number of arguments on the command line.
CliInit ==
    /\ argc \in 0..MaxArgs
    /\ fdb = <<>>
    /\ fdb_str = <<>>
    /\ fquery = <<>>
    /\ fquery_str = <<>>
    /\ k_cli = DefaultK
    /\ min_score_cli = 5
    /\ skip_cli = FALSE
    /\ log_level = <<"d", "e", "b", "u", "g">>
    /\ indexdb = <<>>
    /\ i_query_cli = 0
    /\ i_db_cli = 0
    /\ queried = <<>>
    /\ cpc = "parse"
    /\ cerr = ""

cliLists == <<fdb, fdb_str, fquery, fquery_str>>
cliOpts == <<k_cli, min_score_cli, skip_cli, log_level>>
cliRun == <<indexdb, i_query_cli, i_db_cli, queried>>

\* One pass of 'while len(sys.argv)' (lines 211-243) on the token tok, with
\* val the argument after it.  argc is len(sys.argv).  -v, -do_eval,
\* -skip_query and -log_file set variables the driver's control flow never
\* reads.  min_score is kept in tenths.
ParseArg(tok, val) ==
    /\ cpc = "parse"
    /\ argc > 0
    /\ IF tok = "-h"
       THEN /\ cpc' = "exit" /\ cerr' = "usage"
            /\ argc' = argc - 1
            /\ UNCHANGED <<cliLists, cliOpts>>
       ELSE IF tok \in ValueOptions /\ argc - 1 > 0
       THEN /\ argc' = argc - 2
            /\ fdb' = IF tok = "-db" THEN SplitComma(val, <<>>) ELSE fdb
            /\ fdb_str' = IF tok = "-db_str" THEN SplitComma(val, <<>>) ELSE fdb_str
            /\ fquery' = IF tok = "-query" THEN SplitComma(val, <<>>) ELSE fquery
            /\ fquery_str' = IF tok = "-query_str" THEN SplitComma(val, <<>>) ELSE fquery_str
            /\ log_level' = IF tok = "-log_level" THEN val ELSE log_level
            /\ IF tok \in {"-k", "-min_score"} /\ ~IsNumber(val)
               THEN /\ cpc' = "raised" /\ cerr' = "ValueError"
                    /\ UNCHANGED <<k_cli, min_score_cli>>
               ELSE /\ k_cli' = IF tok = "-k" THEN IntOf(val) ELSE k_cli
                    /\ min_score_cli' = IF tok = "-min_score" THEN 10 * IntOf(val)
                                        ELSE min_score_cli
                    /\ UNCHANGED <<cpc, cerr>>
            /\ UNCHANGED skip_cli
       ELSE IF tok \in FlagOptions
       THEN /\ argc' = argc - 1
            /\ skip_cli' = IF tok = "-skip_same_id" THEN TRUE ELSE skip_cli
            /\ UNCHANGED <<cliLists, k_cli, min_score_cli, log_level, cpc, cerr>>
       ELSE /\ cpc' = "exit" /\ cerr' = "unparsed option"
            /\ argc' = argc - 1
            /\ UNCHANGED <<cliLists, cliOpts>>
    /\ UNCHANGED cliRun
    /\ UNCHANGED notCli

\* The loop ends with sys.argv empty; create_logger(log_file, log_level)
\* (line 245, lines 11-21) exits on a level name logging does not have.
CreateLogger ==
    /\ cpc = "parse"
    /\ argc = 0
    /\ IF IsLogLevel(log_level)
       THEN cpc' = "validate" /\ UNCHANGED cerr
       ELSE cpc' = "exit" /\ cerr' = "Invalid log level"
    /\ UNCHANGED <<argc, cliLists, cliOpts, cliRun>>
    /\ UNCHANGED notCli

\* Lines 247-267: the four checks and the two defaults, in the code's order.
Validate ==
    /\ cpc = "validate"
    /\ IF Len(fdb) = 0
       THEN cpc' = "exit" /\ cerr' = "missing -fdb option" /\ UNCHANGED cliLists
       ELSE IF Len(fquery) = 0
       THEN cpc' = "exit" /\ cerr' = "missing -fquery option" /\ UNCHANGED cliLists
       ELSE /\ fdb_str' = IF Len(fdb_str) = 0 THEN NoneList(Len(fdb)) ELSE fdb_str
            /\ fquery_str' = IF Len(fquery_str) = 0 THEN NoneList(Len(fquery)) ELSE fquery_str
            /\ UNCHANGED <<fdb, fquery>>
            /\ IF LengthsDiffer(fdb_str', fdb)
               THEN cpc' = "exit" /\ cerr' = "diff num of files between -fdb and -fdb_str"
               ELSE IF LengthsDiffer(fquery_str', fquery)
               THEN cpc' = "exit" /\ cerr' = "diff num of files between -fquery and -fquery_str"
               ELSE cpc' = "load" /\ UNCHANGED cerr
    /\ UNCHANGED <<argc, cliOpts, cliRun>>
    /\ UNCHANGED notCli

\* Lines 270-280, one constructor call or one Query call a step.  A call whose
\* argument count is not the declared one raises TypeError.
RunStep ==
    /\ cpc \in {"load", "query"}
    /\ IF cpc = "load"
       THEN IF i_db_cli < Len(fdb)
            THEN IF InitCallArgs = InitParams
                 THEN /\ indexdb' = Append(indexdb, i_db_cli)
                      /\ i_db_cli' = i_db_cli + 1
                      /\ UNCHANGED <<cpc, cerr, i_query_cli, queried, k_cli>>
                 ELSE /\ cpc' = "raised" /\ cerr' = "TypeError"
                      /\ UNCHANGED <<indexdb, i_db_cli, i_query_cli, queried, k_cli>>
            ELSE /\ cpc' = IF Len(fquery) = 0 THEN "done" ELSE "query"
                 /\ i_db_cli' = 0
                 /\ k_cli' = IF Len(fquery) > 0 /\ skip_cli THEN k_cli + 1 ELSE k_cli
                 /\ UNCHANGED <<cerr, indexdb, i_query_cli, queried>>
       ELSE IF QueryCallArgs = QueryParams
            THEN /\ queried' = Append(queried, [query |-> i_query_cli, db |-> i_db_cli,
                                                k |-> k_cli])
                 /\ IF i_db_cli + 1 < Len(fdb)
                    THEN i_db_cli' = i_db_cli + 1 /\ UNCHANGED <<i_query_cli, k_cli, cpc>>
                    ELSE /\ i_db_cli' = 0
                         /\ i_query_cli' = i_query_cli + 1
                         /\ IF i_query_cli + 1 < Len(fquery)
                            THEN k_cli' = (IF skip_cli THEN k_cli + 1 ELSE k_cli)
                                 /\ UNCHANGED cpc
                            ELSE cpc' = "done" /\ UNCHANGED k_cli
                 /\ UNCHANGED <<cerr, indexdb>>
            ELSE /\ cpc' = "raised" /\ cerr' = "TypeError"
                 /\ UNCHANGED <<indexdb, i_db_cli, i_query_cli, queried, k_cli>>
    /\ UNCHANGED <<argc, cliLists, min_score_cli, skip_cli, log_level>>
    /\ UNCHANGED notCli

CliNext ==
    \/ \E tok \in OptionTokens : \E val \in ValuesFor(tok) : ParseArg(tok, val)
    \/ CreateLogger
    \/ Validate
    \/ RunStep

CliIdle ==
    /\ argc = 0
    /\ fdb = <<>>
    /\ fdb_str = <<>>
    /\ fquery = <<>>
    /\ fquery_str = <<>>
    /\ k_cli = DefaultK
    /\ min_score_cli = 5
    /\ skip_cli = FALSE
    /\ log_level = <<"d", "e", "b", "u", "g">>
    /\ indexdb = <<>>
    /\ i_query_cli = 0
    /\ i_db_cli = 0
    /\ queried = <<>>
    /\ cpc = "idle"
    /\ cerr = ""

\* ---- C9 ----
\* The lists as the command line gave them break one of the four checks.
DbMissing == Len(fdb) = 0
QueryMissing == Len(fquery) = 0
DbStrMismatch == Len(fdb_str) # 0 /\ Len(fdb_str) # Len(fdb)
QueryStrMismatch == Len(fquery_str) # 0 /\ Len(fquery_str) # Len(fquery)
BadLists == DbMissing \/ QueryMissing \/ DbStrMismatch \/ QueryStrMismatch

\* The run ended while the command line was being read or the logger created.
EndedBeforeChecks ==
    cerr \in {"usage", "unparsed option", "ValueError", "Invalid log level"}

ListErrors ==
    {"missing -fdb option", "missing -fquery option",
     "diff num of files between -fdb and -fdb_str",
     "diff num of files between -fquery and -fquery_str"}

\* Nothing was loaded and nothing was queried.
NothingRun == indexdb = <<>> /\ queried = <<>> /\ cpc \notin {"load", "query", "done"}

\* C9: CLI list-length validation: when the -db list and a supplied -db_str
\* list, or the -query list and a supplied -query_str list, differ in length,
\* or the -db or -query list is empty, no database is loaded and no query is
\* run, and once the command line is read and the logger is created the run
\* exits with the error of a failed list check; such an exit happens only on
\* such lists.
C9_ListValidation ==
    /\ BadLists => NothingRun /\ cerr # "TypeError"
    /\ (BadLists /\ cpc \notin {"parse", "validate"} /\ ~EndedBeforeChecks) =>
          cpc = "exit" /\ cerr \in ListErrors
    /\ cerr \in ListErrors => cpc = "exit" /\ BadLists /\ NothingRun
    /\ (cpc = "exit" /\ cerr = "diff num of files between -fdb and -fdb_str") =>
          DbStrMismatch
    /\ (cpc = "exit" /\ cerr = "diff num of files between -fquery and -fquery_str") =>
          QueryStrMismatch

\* The run has exited on a -db list of two files with a -db_str list of one.
C9_Witness ==
    /\ cpc = "exit"
    /\ cerr = "diff num of files between -fdb and -fdb_str"
    /\ Len(fdb) = 2
    /\ Len(fdb_str) = 1
    /\ Len(fquery) > 0

\* The run has exited on a -query_str list longer than the -query list.
C9_QueryWitness ==
    /\ cpc = "exit"
    /\ cerr = "diff num of files between -fquery and -fquery_str"
    /\ Len(fquery_str) > Len(fquery)


\* ---- C13 ----
\* The run has passed the list checks and has ended.
RunOver == cpc \in {"done", "raised"} /\ cerr # "ValueError"

\* The k the command line gave, from the driver's k at the end of the run.
InitialK == IF skip_cli THEN k_cli - Len(fquery) ELSE k_cli

\* C13: CLI k adjustment under -skip_same_id: with initial value k0 the i-th
\* query file (i = 1..M) is searched with k0 + i against every database;
\* without -skip_same_id every query file is searched with k0.
C13_AsStated ==
    RunOver =>
        /\ \A q \in 0..(Len(fquery) - 1) : \A b \in 0..(Len(fdb) - 1) :
              \E n \in 1..Len(queried) : queried[n].query = q /\ queried[n].db = b
        /\ \A n \in 1..Len(queried) :
              queried[n].k = InitialK + (IF skip_cli THEN queried[n].query + 1 ELSE 0)

\* The run has ended with TypeError on lists that passed the checks, with
\* -skip_same_id and two query files, before any query was made.
C13_TypeError ==
    /\ cpc = "raised"
    /\ cerr = "TypeError"
    /\ skip_cli
    /\ Len(fquery) = 2
    /\ Len(fdb) >= 1
    /\ queried = <<>>


(***************************************************************************)
(* TRAINING BATCH CONSTRUCTION                                             *)
(***************************************************************************)

\* ---- bounds ----
MaxWindow == 1
MaxBatch == 3

\* Vocabulary sizes (the sentinel alone, up to three tokens besides it) and
\* numbers of negatives per example.
VocabSizes == {1, 2, 3, 4}
NegCounts == {0, 1, 2}

\* Dataset.__init__: self.idx_pad = vocab.idx_unk
idx_pad == idx_unk

\* Tokenized corpora (lists of sentences of vocabulary indices), as
\* Dataset.__init__ and SubSample leave them: empty and one-token sentences,
\* unknown tokens (index 0), repeated tokens, sentences in any order.
Corpora ==
    { << <<0, 0>> >>,
      << <<1, 0>> >>,
      << <<1>>, <<2, 1>> >>,
      << <<1, 2, 1>>, <<>> >>,
      << <<2, 1>>, <<1, 1>> >>,
      << <<1, 0, 1>>, <<1, 1>> >> }

\* The elements of a list.
Elems(s) == {s[p] : p \in 1..Len(s)}

\* The indices a corpus holds; vocab[tok] yields indices below len(vocab).
IndicesOf(c) == UNION {Elems(c[s]) : s \in 1..Len(c)}

\* np.argsort(np.array(length)): a permutation of the Python indices
\* 0..n-1 along which the lengths do not decrease.  The default sort is not
\* stable, so sentences of equal length come in any order.
ArgSorts(c) ==
    {p \in [1..Len(c) -> 0..(Len(c) - 1)] :
        /\ \A a, b \in 1..Len(c) : a # b => p[a] # p[b]
        /\ \A a \in 1..(Len(c) - 1) : Len(c[p[a] + 1]) <= Len(c[p[a + 1] + 1])}

\* snt = list(toks); del snt[i]
RemoveAt(toks, i) == SubSeq(toks, 1, i) \o SubSeq(toks, i + 2, Len(toks))

\* [self.idx_pad] * addn (empty for addn <= 0)
Pads(addn) == [p \in 1..addn |-> idx_pad]

\* Faulty variant of PadBatch: leaves the earlier entries as they are.
PadNone(snts) == snts

\* Lines 202-205 on batch_snt after the append of snt.
PadBatch(snts) ==
    IF Len(snts) > 1 /\ Len(snts[Len(snts)]) > Len(snts[1])
    THEN [q \in 1..Len(snts) |->
             IF q < Len(snts) THEN snts[q] \o Pads(Len(snts[Len(snts)]) - Len(snts[q]))
             ELSE snts[q]]
    ELSE snts

RECURSIVE CtxFrom(_, _, _, _)
\* for j in range(i-window, i+window+1), from j on (lines 209-215); hi = i+window.
CtxFrom(toks, i, j, hi) ==
    IF j > hi THEN <<>>
    ELSE (IF j < 0 THEN <<idx_pad>>
          ELSE IF j >= Len(toks) THEN <<idx_pad>>
          ELSE IF j # i THEN <<toks[j + 1]>>
          ELSE <<>>) \o CtxFrom(toks, i, j + 1, hi)

\* Faulty variant of Ctx: starts one position late.
CtxShifted(toks, i, w) == CtxFrom(toks, i, i - w + 1, i + w)

\* ctx of lines 208-215 for center position i and window w.
Ctx(toks, i, w) == CtxFrom(toks, i, i - w, i + w)

\* Faulty variant of Rejected: lets the center word through.
RejectedCtxOnly(v, ctx, wrd) == v \in Elems(ctx)

\* while idx in ctx or idx == wrd
Rejected(v, ctx, wrd) == v \in Elems(ctx) \/ v = wrd

\* if len(toks) < 2: continue
TooShort(toks) == Len(toks) < 2

\* Faulty variant of BatchFull: emits the batch one example late.
BatchOverfull(n, size) == n = size + 1

\* if len(batch_wrd) == self.batch_size
BatchFull(n, size) == n = size

\* The values random.randint(1, self.vocab_size-1) returns; it raises
\* ValueError when there is none.
RandRange(vs) == 1..(vs - 1)

\* A Dataset after __init__, before build_batchs.
BatchInit ==
    /\ ds_corpus \in Corpora
    /\ vocab_size \in VocabSizes
    /\ IndicesOf(ds_corpus) \subseteq 0..(vocab_size - 1)
    /\ window \in 0..MaxWindow
    /\ n_negs \in NegCounts
    /\ batch_size \in 1..MaxBatch
    /\ indexs = <<>>
    /\ s_pos = 0
    /\ i_tok = 0
    /\ batch_wrd = <<>>
    /\ batch_ctx = <<>>
    /\ batch_neg = <<>>
    /\ batch_snt = <<>>
    /\ batch_len = <<>>
    /\ batchs = <<>>
    /\ neg = <<>>
    /\ idx = 0
    /\ bpc = "start"
    /\ berr = ""

batchParams == <<ds_corpus, vocab_size, window, n_negs, batch_size>>
batchLists == <<batch_wrd, batch_ctx, batch_neg, batch_snt, batch_len>>

\* The sentence the loop over indexs is on.
Toks == ds_corpus[indexs[s_pos + 1] + 1]

\* Lines 178-185: the sort and the empty lists.
SortSentences ==
    /\ bpc = "start"
    /\ indexs' \in ArgSorts(ds_corpus)
    /\ bpc' = "loop"
    /\ UNCHANGED <<batchParams, batchLists, s_pos, i_tok, batchs, neg, idx, berr>>
    /\ UNCHANGED notBatch

\* Lines 186-216: the next sentence is skipped when shorter than 2, else the
\* example of position i_tok is begun: center word, snt, length, padding, ctx.
BeginExample ==
    /\ bpc = "loop"
    /\ s_pos < Len(indexs)
    /\ IF TooShort(Toks)
       THEN /\ s_pos' = s_pos + 1
            /\ UNCHANGED <<batchLists, neg, bpc>>
       ELSE /\ batch_wrd' = Append(batch_wrd, Toks[i_tok + 1])
            /\ batch_snt' = PadBatch(Append(batch_snt, RemoveAt(Toks, i_tok)))
            /\ batch_len' = Append(batch_len, Len(RemoveAt(Toks, i_tok)))
            /\ batch_ctx' = Append(batch_ctx, Ctx(Toks, i_tok, window))
            /\ neg' = <<>>
            /\ bpc' = "negs"
            /\ UNCHANGED <<batch_neg, s_pos>>
    /\ UNCHANGED <<batchParams, indexs, i_tok, batchs, idx, berr>>
    /\ UNCHANGED notBatch

\* Lines 220-224, one random.randint a step: the draw v is appended to neg
\* unless the while loop rejects it and draws again.
DrawNeg(v) ==
    /\ bpc = "negs"
    /\ Len(neg) < n_negs
    /\ v \in RandRange(vocab_size)
    /\ idx' = v
    /\ neg' = IF Rejected(v, batch_ctx[Len(batch_ctx)], batch_wrd[Len(batch_wrd)])
              THEN neg ELSE Append(neg, v)
    /\ UNCHANGED <<batchParams, batchLists, indexs, s_pos, i_tok, batchs, bpc, berr>>
    /\ UNCHANGED notBatch

\* random.randint(1, 0): ValueError, with a vocabulary of the sentinel alone.
DrawRaises ==
    /\ bpc = "negs"
    /\ Len(neg) < n_negs
    /\ RandRange(vocab_size) = {}
    /\ bpc' = "raised"
    /\ berr' = "ValueError"
    /\ UNCHANGED <<batchParams, batchLists, indexs, s_pos, i_tok, batchs, neg, idx>>
    /\ UNCHANGED notBatch

\* Lines 225-233: the example is complete; a full batch is emitted.
EndExample ==
    /\ bpc = "negs"
    /\ Len(neg) = n_negs
    /\ IF BatchFull(Len(batch_wrd), batch_size)
       THEN /\ batchs' = Append(batchs, <<batch_wrd, batch_ctx, Append(batch_neg, neg),
                                          batch_snt, batch_len>>)
            /\ batch_wrd' = <<>>
            /\ batch_ctx' = <<>>
            /\ batch_neg' = <<>>
            /\ batch_snt' = <<>>
            /\ batch_len' = <<>>
       ELSE /\ batch_neg' = Append(batch_neg, neg)
            /\ UNCHANGED <<batchs, batch_wrd, batch_ctx, batch_snt, batch_len>>
    /\ IF i_tok + 1 < Len(Toks)
       THEN i_tok' = i_tok + 1 /\ UNCHANGED s_pos
       ELSE i_tok' = 0 /\ s_pos' = s_pos + 1
    /\ bpc' = "loop"
    /\ UNCHANGED <<batchParams, indexs, neg, idx, berr>>
    /\ UNCHANGED notBatch

\* Lines 235-240: the last, partial batch.  The model keeps the corpus that
\* 'del self.corpus' drops, as the record of the input.
EndBatchs ==
    /\ bpc = "loop"
    /\ s_pos = Len(indexs)
    /\ IF Len(batch_wrd) > 0
       THEN batchs' = Append(batchs, <<batch_wrd, batch_ctx, batch_neg, batch_snt, batch_len>>)
       ELSE UNCHANGED batchs
    /\ bpc' = "done"
    /\ UNCHANGED <<batchParams, batchLists, indexs, s_pos, i_tok, neg, idx, berr>>
    /\ UNCHANGED notBatch

BatchNext ==
    \/ SortSentences
    \/ BeginExample
    \/ \E v \in UNION {RandRange(vs) : vs \in VocabSizes} : DrawNeg(v)
    \/ DrawRaises
    \/ EndExample
    \/ EndBatchs

BatchIdle ==
    /\ ds_corpus = <<>>
    /\ vocab_size = 1
    /\ window = 0
    /\ n_negs = 0
    /\ batch_size = 1
    /\ indexs = <<>>
    /\ s_pos = 0
    /\ i_tok = 0
    /\ batch_wrd = <<>>
    /\ batch_ctx = <<>>
    /\ batch_neg = <<>>
    /\ batch_snt = <<>>
    /\ batch_len = <<>>
    /\ batchs = <<>>
    /\ neg = <<>>
    /\ idx = 0
    /\ bpc = "idle"
    /\ berr = ""

\* ---- C10 ----
\* The examples build_batchs has emitted: (center, context, negatives) of
\* every position of every batch of self.batchs.
Emitted ==
    UNION {{[wrd |-> batchs[b][1][e], ctx |-> batchs[b][2][e], neg |-> batchs[b][3][e]] :
               e \in 1..Len(batchs[b][1])} : b \in 1..Len(batchs)}

\* C10: Negative-sample exclusion: in every example emitted by build_batchs the
\* negative list has exactly n_negs indices, each in 1..vocab_size-1, none
\* equal to the example's center word index and none present in its context
\* window.
C10_NegativeExclusion ==
    /\ \A b \in 1..Len(batchs) : Len(batchs[b][3]) = Len(batchs[b][1])
    /\ \A x \in Emitted :
          /\ Len(x.neg) = n_negs
          /\ \A p \in 1..Len(x.neg) :
                /\ x.neg[p] \in 1..(vocab_size - 1)
                /\ x.neg[p] # x.wrd
                /\ x.neg[p] \notin Elems(x.ctx)

\* build_batchs has ended with an emitted example that has negatives, from
\* whose draws the center word and a context index were excluded.
C10_Witness ==
    /\ bpc = "done"
    /\ n_negs = 2
    /\ \E x \in Emitted :
          /\ Len(x.neg) = n_negs
          /\ x.wrd \in RandRange(vocab_size)
          /\ \E c \in Elems(x.ctx) : c \in RandRange(vocab_size) /\ c # x.wrd


\* ---- C11 ----
\* The token positions of a sentence that get an example: all of them for a
\* sentence of at least 2 tokens, none for a shorter one.
PositionsOf(toks) ==
    IF Len(toks) >= 2 THEN [q \in 1..Len(toks) |-> [toks |-> toks, i |-> q - 1]] ELSE <<>>

RECURSIVE PositionsFrom(_)
\* The positions of the sentences from entry s of indexs on, in that order.
PositionsFrom(s) ==
    IF s > Len(indexs) THEN <<>>
    ELSE PositionsOf(ds_corpus[indexs[s] + 1]) \o PositionsFrom(s + 1)

\* Every position that is due an example, in the order of the sorted corpus.
Positions == PositionsFrom(1)

RECURSIVE BatchsBefore(_)
\* The number of examples in the batches before batch b.
BatchsBefore(b) == IF b <= 1 THEN 0 ELSE BatchsBefore(b - 1) + Len(batchs[b - 1][1])

\* The number of examples in self.batchs.
NEmitted == BatchsBefore(Len(batchs) + 1)

\* C11: Training batch grouping: build_batchs emits exactly one example per
\* token position of every sentence with at least 2 tokens and none for a
\* shorter one, in batches of which every one but the last holds exactly
\* batch_size examples, the last between 1 and batch_size, none is empty, and
\* whose five lists have equal length.
C11_BatchGrouping ==
    /\ \A b \in 1..Len(batchs) :
          /\ \A l \in 2..5 : Len(batchs[b][l]) = Len(batchs[b][1])
          /\ Len(batchs[b][1]) \in 1..batch_size
          /\ b < Len(batchs) => Len(batchs[b][1]) = batch_size
    /\ bpc # "start" =>
          /\ NEmitted <= Len(Positions)
          /\ \A b \in 1..Len(batchs) : \A e \in 1..Len(batchs[b][1]) :
                LET pos == Positions[BatchsBefore(b) + e]
                IN  /\ batchs[b][1][e] = pos.toks[pos.i + 1]
                    /\ batchs[b][5][e] = Len(pos.toks) - 1
    /\ bpc = "done" => NEmitted = Len(Positions)

\* build_batchs has ended with a full batch and a partial last one, on a
\* corpus with a sentence too short to give examples.
C11_Witness ==
    /\ bpc = "done"
    /\ Len(batchs) >= 2
    /\ Len(batchs[Len(batchs)][1]) < batch_size
    /\ \E s \in 1..Len(ds_corpus) : TooShort(ds_corpus[s])


\* ---- C14 ----
\* The context list the claim describes for center position i (Python index)
\* of toks: entry p stands for position i-w+p-1 left of the center and
\* i-w+p right of it, with 0 for a position outside the sentence.
WindowOf(toks, i, w) ==
    [p \in 1..(2 * w) |->
        LET j == IF p <= w THEN i - w + p - 1 ELSE i - w + p
        IN  IF j < 0 \/ j >= Len(toks) THEN 0 ELSE toks[j + 1]]

\* C14: Context window shape: for every example of build_batchs the context
\* list has exactly 2*window entries, which are in order the tokens at
\* positions i-window..i+window excluding i, with the pad index 0 for every
\* position outside the sentence.
C14_ContextShape ==
    bpc # "start" =>
        /\ \A b \in 1..Len(batchs) : \A e \in 1..Len(batchs[b][2]) :
              LET pos == Positions[BatchsBefore(b) + e]
              IN  /\ Len(batchs[b][2][e]) = 2 * window
                  /\ batchs[b][2][e] = WindowOf(pos.toks, pos.i, window)
        /\ bpc # "done" => \A e \in 1..Len(batch_ctx) :
              LET pos == Positions[NEmitted + e]
              IN  /\ Len(batch_ctx[e]) = 2 * window
                  /\ batch_ctx[e] = WindowOf(pos.toks, pos.i, window)

\* build_batchs has ended with an example of the first position of a sentence,
\* whose context is the pad index followed by the second token.
C14_Witness ==
    /\ bpc = "done"
    /\ window = 1
    /\ \E b \in 1..Len(batchs) : \E e \in 1..Len(batchs[b][2]) :
          LET pos == Positions[BatchsBefore(b) + e]
          IN  /\ pos.i = 0
              /\ pos.toks[2] # 0
              /\ batchs[b][2][e] = <<0, pos.toks[2]>>


\* ---- C15 ----
\* The sentence of a position with the center removed.
SntOf(pos) ==
    [q \in 1..(Len(pos.toks) - 1) |-> IF q <= pos.i THEN pos.toks[q] ELSE pos.toks[q + 1]]

\* The largest entry of a non-empty list of numbers.
MaxOf(lens) == CHOOSE m \in Elems(lens) : \A x \in Elems(lens) : x <= m

\* C15: Sentence padding within a batch: in every batch emitted by
\* build_batchs all snt entries have the same length, the maximum of the
\* batch's recorded lengths; each snt entry is the source sentence with the
\* center position removed, followed only by pad indices (0), and its
\* recorded length is the unpadded length, sentence length minus 1.
C15_Padding ==
    \A b \in 1..Len(batchs) : \A e \in 1..Len(batchs[b][4]) :
        LET pos == Positions[BatchsBefore(b) + e]
            snt == batchs[b][4][e]
            len == batchs[b][5][e]
        IN  /\ Len(snt) = MaxOf(batchs[b][5])
            /\ len = Len(pos.toks) - 1
            /\ SubSeq(snt, 1, len) = SntOf(pos)
            /\ \A q \in (len + 1)..Len(snt) : snt[q] = 0

\* build_batchs has ended with a batch that holds examples of a shorter and of
\* a longer sentence, the shorter one padded.
C15_Witness ==
    /\ bpc = "done"
    /\ \E b \in 1..Len(batchs) : \E e \in 1..Len(batchs[b][4]) :
          /\ batchs[b][5][e] < MaxOf(batchs[b][5])
          /\ Len(batchs[b][4][e]) = MaxOf(batchs[b][5])
          /\ batchs[b][4][e][Len(batchs[b][4][e])] = idx_pad


\* ---- C16 ----
\* The indices random.randint can return that the resampling loop lets through
\* for the example being built.
Admissible ==
    {v \in RandRange(vocab_size) :
        ~Rejected(v, batch_ctx[Len(batch_ctx)], batch_wrd[Len(batch_wrd)])}

\* C16: Termination of batch building: for every tokenized corpus and every
\* vocabulary of at least 2 entries, build_batchs terminates under fair random
\* draws.
C16_AsStated == (vocab_size >= 2) ~> (bpc = "done")

\* The resampling loop is running for an example with a vocabulary of at
\* least 2 entries, and every index randint can return is the center word or
\* in the context window.
C16_NoAdmissible ==
    /\ bpc = "negs"
    /\ vocab_size >= 2
    /\ Len(neg) < n_negs
    /\ RandRange(vocab_size) # {}
    /\ Admissible = {}


(***************************************************************************)
(* SPECIFICATIONS                                                          *)
(***************************************************************************)

CkptIdle ==
    /\ disk = <<>>
    /\ model = "m0"
    /\ optimizer = "o0"
    /\ n_steps = 0
    /\ keep_last_n = 0
    /\ saved = <<>>
    /\ lastop = "idle"

InitCkpt == CkptInit /\ VocabIdle /\ LoaderIdle /\ QueryIdle /\ CliIdle /\ BatchIdle

SpecCkpt == InitCkpt /\ [][CkptNext]_vars

InitVocab == VocabInit /\ CkptIdle /\ LoaderIdle /\ QueryIdle /\ CliIdle /\ BatchIdle

SpecVocab == InitVocab /\ [][VocabNext]_vars

InitLoader == LoaderInit /\ CkptIdle /\ VocabIdle /\ QueryIdle /\ CliIdle /\ BatchIdle

SpecLoader == InitLoader /\ [][LoaderNext]_vars

InitQuery == QueryInit /\ CkptIdle /\ VocabIdle /\ LoaderIdle /\ CliIdle /\ BatchIdle

SpecQuery == InitQuery /\ [][QueryNext]_vars

InitCli == CliInit /\ CkptIdle /\ VocabIdle /\ LoaderIdle /\ QueryIdle /\ BatchIdle

SpecCLI == InitCli /\ [][CliNext]_vars

InitBatch == BatchInit /\ CkptIdle /\ VocabIdle /\ LoaderIdle /\ QueryIdle /\ CliIdle

SpecBatch == InitBatch /\ [][BatchNext]_vars

\* build_batchs runs on once called, and random.randint is fair: a value it
\* can return again and again is returned at some time.
BatchFairness ==
    /\ WF_vars(SortSentences \/ BeginExample \/ DrawRaises \/ EndExample \/ EndBatchs)
    /\ \A v \in UNION {RandRange(vs) : vs \in VocabSizes} : SF_vars(DrawNeg(v))

SpecBatchFair == InitBatch /\ [][BatchNext]_vars /\ BatchFairness

====
